---- MODULE Spec2Model ----
(***************************************************************************)
(* A model of package validator (src/validator.go:1-259, the builtin rule  *)
(* functions of src/builtins.go:234-399 and the errors of src/error.go),   *)
(* and of the ValidatorCache of the design, of which src/ holds no code.   *)
(*                                                                         *)
(* Strings are sequences of tokens.  A token is either one of the          *)
(* separator characters "," "=" " ", the backslash (BSlash), the double    *)
(* quote (DQuote), or a run of characters that holds none of them          *)
(* ("nonzero", "12", "foo"), so that splitting and                         *)
(* trimming act on tokens exactly as they act on characters.  A string     *)
(* VALUE (the contents of a string field) is a sequence of one-character   *)
(* tokens, so that its length is the length of the Go string.              *)
(***************************************************************************)
EXTENDS Integers, Sequences, FiniteSets, TLC

VARIABLES
    validators,  \* the Validator objects; validators[1] is defaultValidator
    heap,        \* the Go maps that hold the validation functions, by reference
    last,        \* the last call made and what it returned
    pinned,      \* an earlier Validate call, kept to compare a later one with
    cache        \* the ValidatorCache of one Validator, and the callers using it

vars == <<validators, heap, last, pinned, cache>>

-----------------------------------------------------------------------------
(* Bounds of the model *)

\* how many Validator objects a run creates (defaultValidator included)
MaxValidators == 2
\* the longest string value validated
MaxStrLen == 5
\* the largest number of IntValues and FloatValues
MaxNum == 2
\* how far the Validate calls since the pinned one are counted
MaxSince == 2
\* the callers that use one cache at the same time
MaxCallers == 2
\* the parts the routine of a type is built in
CompileParts == 2
\* the nodes of the largest tree validated
MaxNodes == 3

-----------------------------------------------------------------------------
(* Errors: src/error.go:16-44 *)

ErrZeroValue == "zero value"
ErrMin == "less than min"
ErrMax == "greater than max"
ErrLen == "invalid length"
ErrRegexp == "regular expression mismatch"
ErrUnsupported == "unsupported type"
ErrBadParameter == "bad parameter"
ErrUnknownTag == "unknown tag"
ErrInvalid == "invalid value"
\* the error the builtin regex makes on a mismatch, src/builtins.go:366
ErrRegexNoMatch == "regexp does not match"
\* SetValidationFunc's error for an empty name, src/validator.go:94
ErrEmptyName == "name cannot be empty"

\* a rule function returning no error
NoErr == "nil"
\* a rule function that does not return: a Go panic unwinding the call
Panic == "PANIC"

-----------------------------------------------------------------------------
(* strings.Trim, strings.SplitN, strconv *)

RECURSIVE TrimLeft(_)
TrimLeft(s) ==
    IF s # <<>> /\ Head(s) = " " THEN TrimLeft(Tail(s)) ELSE s

RECURSIVE TrimRight(_)
TrimRight(s) ==
    IF s # <<>> /\ s[Len(s)] = " " THEN TrimRight(SubSeq(s, 1, Len(s) - 1)) ELSE s

\* strings.Trim(s, " ")
Trim(s) == TrimRight(TrimLeft(s))

\* the index of the first token c of s, 0 when there is none
RECURSIVE IndexFrom(_, _, _)
IndexFrom(s, c, i) ==
    IF i > Len(s) THEN 0
    ELSE IF s[i] = c THEN i
    ELSE IndexFrom(s, c, i + 1)

Index(s, c) == IndexFrom(s, c, 1)

\* strings.SplitN(s, "=", 2): one or two parts, cut at the first "="
SplitN2(s) ==
    LET i == Index(s, "=") IN
    IF i = 0 THEN <<s>>
    ELSE <<SubSeq(s, 1, i - 1), SubSeq(s, i + 1, Len(s))>>

\* the integer literals strconv.ParseInt(_, 0, 64) accepts, among the tokens used
IntLit ==
    [t \in {"-1", "0", "1", "2", "3", "4", "5", "6", "7", "8", "10", "12"} |->
        CASE t = "-1" -> -1 [] t = "0" -> 0 [] t = "1" -> 1 [] t = "2" -> 2 [] t = "3" -> 3
          [] t = "4" -> 4 [] t = "5" -> 5 [] t = "6" -> 6 [] t = "7" -> 7
          [] t = "8" -> 8 [] t = "10" -> 10 [] t = "12" -> 12]

\* strconv.ParseInt(param, 0, 64) succeeds
IsInt(param) == Len(param) = 1 /\ param[1] \in DOMAIN IntLit

\* strconv.ParseUint(param, 0, 64) succeeds
IsUint(param) == IsInt(param) /\ IntLit[param[1]] >= 0

\* strconv.ParseFloat(param, 64) succeeds: an integer literal, or "1.0"
IsFloat(param) == IsInt(param) \/ param = <<"1.0">>

FloatOf(param) == IF param = <<"1.0">> THEN 1 ELSE IntLit[param[1]]

-----------------------------------------------------------------------------
(* encoding/csv, as parseTags uses it: csv.NewReader(_).ReadAll() with the  *)
(* default settings, on a text of one line (struct tags hold no newline)   *)

DQuote == "DQUOTE"
BSlash == "BSLASH"

\* a quoted field, after its opening quote: up to the closing quote, "" being
\* a literal quote; anything but a comma or the end after the closing quote,
\* or no closing quote, is a parse error
RECURSIVE csvQuoted(_, _)
csvQuoted(line, acc) ==
    LET i == Index(line, DQuote) IN
    IF i = 0 THEN [ok |-> FALSE, field |-> <<>>, rest |-> <<>>, more |-> FALSE]
    ELSE
        LET pre == acc \o SubSeq(line, 1, i - 1)
            rest == SubSeq(line, i + 1, Len(line))
        IN  IF rest = <<>>
            THEN [ok |-> TRUE, field |-> pre, rest |-> <<>>, more |-> FALSE]
            ELSE IF Head(rest) = DQuote
            THEN csvQuoted(Tail(rest), pre \o <<DQuote>>)
            ELSE IF Head(rest) = ","
            THEN [ok |-> TRUE, field |-> pre, rest |-> Tail(rest), more |-> TRUE]
            ELSE [ok |-> FALSE, field |-> <<>>, rest |-> <<>>, more |-> FALSE]

\* the record whose first field is field and whose other fields are r's
csvCons(field, r) == [ok |-> r.ok, fields |-> <<field>> \o r.fields]

RECURSIVE csvRecord(_)

\* the record that starts with the quoted field q
csvAfterQuoted(q) ==
    IF ~q.ok THEN [ok |-> FALSE, fields |-> <<>>]
    ELSE IF ~q.more THEN [ok |-> TRUE, fields |-> <<q.field>>]
    ELSE csvCons(q.field, csvRecord(q.rest))

\* the record that starts with an unquoted field, i being the index in line of
\* the first comma; a quote inside an unquoted field is a parse error
csvUnquoted(line, i) ==
    IF Index(IF i = 0 THEN line ELSE SubSeq(line, 1, i - 1), DQuote) # 0
    THEN [ok |-> FALSE, fields |-> <<>>]
    ELSE IF i = 0 THEN [ok |-> TRUE, fields |-> <<line>>]
    ELSE csvCons(SubSeq(line, 1, i - 1), csvRecord(SubSeq(line, i + 1, Len(line))))

\* the fields of one record
csvRecord(line) ==
    IF line # <<>> /\ Head(line) = DQuote
    THEN csvAfterQuoted(csvQuoted(Tail(line), <<>>))
    ELSE csvUnquoted(line, Index(line, ","))

\* the records, given the parse r of the one line
csvRecords(r) == [ok |-> r.ok, records |-> IF r.ok THEN <<r.fields>> ELSE <<>>]

\* r.ReadAll(): the records of the text; an empty text has no record
csvReadAll(t) ==
    IF t = <<>> THEN [ok |-> TRUE, records |-> <<>>]
    ELSE csvRecords(csvRecord(t))

-----------------------------------------------------------------------------
(* parseTags: src/validator.go:215-243.  funcs is the validator's map of   *)
(* validation functions: a function from rule names to function values.   *)

RECURSIVE parseItems(_, _, _, _)

\* a parseItem that passes over a name that is not registered
parseItemSkipsUnknown(funcs, tl, i, tags, name, param) ==
    IF name = <<>> THEN [err |-> ErrUnknownTag, tags |-> <<>>]
    ELSE IF name \notin DOMAIN funcs THEN parseItems(funcs, tl, i + 1, tags)
    ELSE parseItems(funcs, tl, i + 1,
                    Append(tags, [Name |-> name, Fn |-> funcs[name], Param |-> param]))

\* the body of the loop, for the item whose name and parameter are given
parseItem(funcs, tl, i, tags, name, param) ==
    IF name = <<>> THEN [err |-> ErrUnknownTag, tags |-> <<>>]
    ELSE IF name \notin DOMAIN funcs THEN [err |-> ErrUnknownTag, tags |-> <<>>]
    ELSE parseItems(funcs, tl, i + 1,
                    Append(tags, [Name |-> name, Fn |-> funcs[name], Param |-> param]))

\* the item whose parts (split at the first "=") are v
parseSplit(funcs, tl, i, tags, v) ==
    parseItem(funcs, tl, i, tags, Trim(v[1]), IF Len(v) > 1 THEN Trim(v[2]) ELSE <<>>)

\* the loop over the items of the list tl, from item i on
parseItems(funcs, tl, i, tags) ==
    IF i > Len(tl) THEN [err |-> NoErr, tags |-> tags]
    ELSE parseSplit(funcs, tl, i, tags, SplitN2(tl[i]))

\* the tags, given what ReadAll returned
parseRecords(funcs, r) ==
    IF ~r.ok \/ Len(r.records) # 1 THEN [err |-> ErrUnknownTag, tags |-> <<>>]
    ELSE parseItems(funcs, r.records[1], 1, <<>>)

parseTags(funcs, t) == parseRecords(funcs, csvReadAll(t))

-----------------------------------------------------------------------------
(* Go values, as reflect sees them.  A struct field carries its name,      *)
(* whether it is exported, and its struct tag: a function from tag keys to *)
(* tag texts, the empty text for a key the tag does not hold.              *)

IntV(n) == [kind |-> "Int", n |-> n]
UintV(n) == [kind |-> "Uint", n |-> n]
FloatV(n) == [kind |-> "Float64", n |-> n]
BoolV(b) == [kind |-> "Bool", b |-> b]
StrV(s) == [kind |-> "String", s |-> s]
SliceV(elems) == [kind |-> "Slice", elems |-> elems]
\* a map, elems listing its values, and an array
MapV(elems) == [kind |-> "Map", elems |-> elems]
ArrayV(elems) == [kind |-> "Array", elems |-> elems]
NilPtr == [kind |-> "Ptr", isNil |-> TRUE]
PtrTo(x) == [kind |-> "Ptr", isNil |-> FALSE, elem |-> x]
NilIface == [kind |-> "Interface", isNil |-> TRUE]
Iface(x) == [kind |-> "Interface", isNil |-> FALSE, elem |-> x]
StructV(fields) == [kind |-> "Struct", fields |-> fields]
\* reflect.ValueOf(nil): the zero Value, of kind Invalid
NilValue == [kind |-> "Invalid"]

\* reflect.Value.Interface(): the value as an interface{}; for a field of
\* interface type, the value it holds (nil for a nil interface)
ToInterface(f) ==
    IF f.kind = "Interface" THEN (IF f.isNil THEN NilValue ELSE f.elem) ELSE f

-----------------------------------------------------------------------------
(* The builtin validation functions: src/builtins.go:243-399.  Each        *)
(* returns NoErr, an error, or Panic when the Go function panics.          *)

\* regexp.MustCompile(param) does not panic, for the patterns used
RegexCompiles(param) ==
    param \in {<<>>, <<".*">>, <<"a.*b">>, <<"^a*$">>}

\* re.MatchString(s), for the patterns used
RegexMatch(param, s) ==
    CASE param = <<>> -> TRUE
      [] param = <<".*">> -> TRUE
      [] param = <<"a.*b">> ->
            \E i \in 1..Len(s) : \E j \in 1..Len(s) : i < j /\ s[i] = "a" /\ s[j] = "b"
      [] param = <<"^a*$">> -> \A i \in 1..Len(s) : s[i] = "a"

\* a nonzero that lacks the case of pointers and interfaces: valid stays true
nonzeroNoPtrCase(v, param) ==
    CASE v.kind = "String" -> IF Len(v.s) # 0 THEN NoErr ELSE ErrZeroValue
      [] v.kind \in {"Ptr", "Interface"} -> NoErr
      [] v.kind \in {"Slice", "Map", "Array"} -> IF Len(v.elems) # 0 THEN NoErr ELSE ErrZeroValue
      [] v.kind \in {"Int", "Uint", "Float64"} -> IF v.n # 0 THEN NoErr ELSE ErrZeroValue
      [] v.kind = "Bool" -> IF v.b THEN NoErr ELSE ErrZeroValue
      [] v.kind = "Invalid" -> ErrZeroValue
      [] OTHER -> Panic

\* src/builtins.go:245-273
nonzero(v, param) ==
    CASE v.kind = "String" -> IF Len(v.s) # 0 THEN NoErr ELSE ErrZeroValue
      [] v.kind \in {"Ptr", "Interface"} -> IF ~v.isNil THEN NoErr ELSE ErrZeroValue
      [] v.kind \in {"Slice", "Map", "Array"} -> IF Len(v.elems) # 0 THEN NoErr ELSE ErrZeroValue
      [] v.kind \in {"Int", "Uint", "Float64"} -> IF v.n # 0 THEN NoErr ELSE ErrZeroValue
      [] v.kind = "Bool" -> IF v.b THEN NoErr ELSE ErrZeroValue
      [] v.kind = "Invalid" -> ErrZeroValue
      [] OTHER -> Panic

\* src/builtins.go:278-299
length(v, param) ==
    CASE v.kind = "String" ->
            IF ~IsInt(param) THEN Panic
            ELSE IF Len(v.s) = IntLit[param[1]] THEN NoErr ELSE ErrLen
      [] v.kind \in {"Slice", "Map", "Array"} ->
            IF ~IsInt(param) THEN Panic
            ELSE IF Len(v.elems) = IntLit[param[1]] THEN NoErr ELSE ErrLen
      [] v.kind = "Int" ->
            IF ~IsInt(param) THEN Panic
            ELSE IF v.n = IntLit[param[1]] THEN NoErr ELSE ErrLen
      [] v.kind = "Uint" ->
            IF ~IsUint(param) THEN Panic
            ELSE IF v.n = IntLit[param[1]] THEN NoErr ELSE ErrLen
      [] v.kind = "Float64" ->
            IF ~IsFloat(param) THEN Panic
            ELSE IF v.n = FloatOf(param) THEN NoErr ELSE ErrLen
      [] OTHER -> Panic

\* a min that a value equal to the parameter fails too
minAboveOnly(v, param) ==
    CASE v.kind = "String" ->
            IF ~IsInt(param) THEN Panic
            ELSE IF Len(v.s) <= IntLit[param[1]] THEN ErrMin ELSE NoErr
      [] v.kind \in {"Slice", "Map", "Array"} ->
            IF ~IsInt(param) THEN Panic
            ELSE IF Len(v.elems) <= IntLit[param[1]] THEN ErrMin ELSE NoErr
      [] v.kind = "Int" ->
            IF ~IsInt(param) THEN Panic
            ELSE IF v.n <= IntLit[param[1]] THEN ErrMin ELSE NoErr
      [] v.kind = "Uint" ->
            IF ~IsUint(param) THEN Panic
            ELSE IF v.n <= IntLit[param[1]] THEN ErrMin ELSE NoErr
      [] v.kind = "Float64" ->
            IF ~IsFloat(param) THEN Panic
            ELSE IF v.n <= FloatOf(param) THEN ErrMin ELSE NoErr
      [] OTHER -> Panic

\* src/builtins.go:305-326
min(v, param) ==
    CASE v.kind = "String" ->
            IF ~IsInt(param) THEN Panic
            ELSE IF Len(v.s) < IntLit[param[1]] THEN ErrMin ELSE NoErr
      [] v.kind \in {"Slice", "Map", "Array"} ->
            IF ~IsInt(param) THEN Panic
            ELSE IF Len(v.elems) < IntLit[param[1]] THEN ErrMin ELSE NoErr
      [] v.kind = "Int" ->
            IF ~IsInt(param) THEN Panic
            ELSE IF v.n < IntLit[param[1]] THEN ErrMin ELSE NoErr
      [] v.kind = "Uint" ->
            IF ~IsUint(param) THEN Panic
            ELSE IF v.n < IntLit[param[1]] THEN ErrMin ELSE NoErr
      [] v.kind = "Float64" ->
            IF ~IsFloat(param) THEN Panic
            ELSE IF v.n < FloatOf(param) THEN ErrMin ELSE NoErr
      [] OTHER -> Panic

\* src/builtins.go:332-353
max(v, param) ==
    CASE v.kind = "String" ->
            IF ~IsInt(param) THEN Panic
            ELSE IF Len(v.s) > IntLit[param[1]] THEN ErrMax ELSE NoErr
      [] v.kind \in {"Slice", "Map", "Array"} ->
            IF ~IsInt(param) THEN Panic
            ELSE IF Len(v.elems) > IntLit[param[1]] THEN ErrMax ELSE NoErr
      [] v.kind = "Int" ->
            IF ~IsInt(param) THEN Panic
            ELSE IF v.n > IntLit[param[1]] THEN ErrMax ELSE NoErr
      [] v.kind = "Uint" ->
            IF ~IsUint(param) THEN Panic
            ELSE IF v.n > IntLit[param[1]] THEN ErrMax ELSE NoErr
      [] v.kind = "Float64" ->
            IF ~IsFloat(param) THEN Panic
            ELSE IF v.n > FloatOf(param) THEN ErrMax ELSE NoErr
      [] OTHER -> Panic

\* src/builtins.go:357-369
regex(v, param) ==
    IF v.kind # "String" THEN Panic
    ELSE IF ~RegexCompiles(param) THEN Panic
    ELSE IF ~RegexMatch(param, v.s) THEN ErrRegexNoMatch
    ELSE NoErr

\* a validation function a caller registers: it accepts every value
\* (the function TestCopy registers under "custom")
customOK(v, param) == NoErr

\* t.Fn(v, t.Param): the call of a function value held in the map
Call(fn, v, param) ==
    CASE fn = "nonzero" -> nonzero(v, param)
      [] fn = "length" -> length(v, param)
      [] fn = "min" -> min(v, param)
      [] fn = "max" -> max(v, param)
      [] fn = "regex" -> regex(v, param)
      [] fn = "customOK" -> customOK(v, param)

-----------------------------------------------------------------------------
(* validateVar, Valid: src/validator.go:174-205 *)

RECURSIVE validateTags(_, _, _, _)

\* the body of the loop, err being what the function of tag i returned
validateTag(tags, v, i, errs, err) ==
    IF err = Panic THEN [panic |-> TRUE, errs |-> <<>>]
    ELSE validateTags(tags, v, i + 1, IF err # NoErr THEN Append(errs, err) ELSE errs)

\* the loop of validateVar over the parsed tags, from tag i on
validateTags(tags, v, i, errs) ==
    IF i > Len(tags) THEN [panic |-> FALSE, errs |-> errs]
    ELSE validateTag(tags, v, i, errs, Call(tags[i].Fn, v, tags[i].Param))

\* validateVar, p being what parseTags returned
validateParsed(p, v) ==
    IF p.err # NoErr THEN [panic |-> FALSE, errs |-> <<p.err>>]
    ELSE validateTags(p.tags, v, 1, <<>>)

validateVar(funcs, v, tag) == validateParsed(parseTags(funcs, tag), v)

\* a return that calls a value with one violation valid
ValidReturnOneAllowed(r) ==
    [panic |-> r.panic, valid |-> ~r.panic /\ Len(r.errs) < 2, errs |-> r.errs]

\* return len(errs) < 1, errs
ValidReturn(r) ==
    [panic |-> r.panic, valid |-> ~r.panic /\ Len(r.errs) < 1, errs |-> r.errs]

\* a Valid that lacks the case of structs: the rules are run on the struct
ValidNoStructCase(funcs, val, tags) ==
    ValidReturn(validateVar(funcs,
                            IF val.kind = "Ptr" /\ ~val.isNil THEN val.elem ELSE val, tags))

\* Valid returns (bool, []error): here [panic, valid, errs]
RECURSIVE Valid(_, _, _)
Valid(funcs, val, tags) ==
    IF val.kind = "Ptr" /\ ~val.isNil THEN Valid(funcs, val.elem, tags)
    ELSE IF val.kind = "Struct"
    THEN [panic |-> FALSE, valid |-> FALSE, errs |-> <<ErrUnsupported>>]
    ELSE ValidReturn(validateVar(funcs, val, tags))

-----------------------------------------------------------------------------
(* Validate: src/validator.go:114-164.  It returns (bool, error): here     *)
(* [panic, valid, kind, errs], kind telling the error apart ("nil",        *)
(* "ErrUnsupported", or "Error" for an *Error) and errs being the map of   *)
(* the *Error, from field paths to lists of errors.  A path is the         *)
(* sequence of the field names that the code joins with ".".               *)

PanicResult == [panic |-> TRUE, valid |-> FALSE, kind |-> "nil", errs |-> <<>>]

\* st.Field(i).Tag.Get(key)
TagGet(field, key) == IF key \in DOMAIN field.tags THEN field.tags[key] ELSE <<>>

\* for f.Kind() == reflect.Ptr && !f.IsNil() { f = f.Elem() }
RECURSIVE Deref(_)
Deref(f) == IF f.kind = "Ptr" /\ ~f.isNil THEN Deref(f.elem) ELSE f

\* a merge that keeps the keys of the nested *Error as they are
MergeNestedNoPrefix(errs, fname, nested) ==
    [p \in DOMAIN errs \cup DOMAIN nested |->
        IF p \in DOMAIN nested THEN nested[p] ELSE errs[p]]

\* verr.errs[fname+"."+k] = v, for every k, v of the nested *Error
MergeNested(errs, fname, nested) ==
    LET new == {<<fname>> \o k : k \in DOMAIN nested} IN
    [p \in DOMAIN errs \cup new |->
        IF p \in new THEN nested[Tail(p)] ELSE errs[p]]

\* a SetField that keys the field below the first segment of a path recorded
\* before, when there is one
SetFieldBelowEarlier(errs, fname, es) ==
    LET key == IF DOMAIN errs = {} THEN <<fname>>
               ELSE <<(CHOOSE q \in DOMAIN errs : TRUE)[1], fname>> IN
    [p \in DOMAIN errs \cup {key} |-> IF p = key THEN es ELSE errs[p]]

\* verr.errs[fname] = errs
SetField(errs, fname, es) ==
    [p \in DOMAIN errs \cup {<<fname>>} |-> IF p = <<fname>> THEN es ELSE errs[p]]

RECURSIVE Validate(_, _, _)
RECURSIVE validateFields(_, _, _, _, _)

\* case reflect.Struct of the loop, r being what the nested Validate returned
structField(funcs, tagName, fields, i, errs, r) ==
    IF r.panic THEN [panic |-> TRUE, errs |-> <<>>]
    ELSE validateFields(funcs, tagName, fields, i + 1,
            IF r.kind = "Error" THEN MergeNested(errs, fields[i].name, r.errs) ELSE errs)

\* the default case of the loop, r being what Valid returned
otherField(funcs, tagName, fields, i, errs, r) ==
    IF r.panic THEN [panic |-> TRUE, errs |-> <<>>]
    ELSE validateFields(funcs, tagName, fields, i + 1,
            IF Len(r.errs) > 0 THEN SetField(errs, fields[i].name, r.errs) ELSE errs)

\* the body of the loop for field i, f being the field's value behind its
\* pointers and tag its tag text
validateField(funcs, tagName, fields, i, errs, f, tag) ==
    IF tag = <<>> /\ f.kind # "Struct"
    THEN validateFields(funcs, tagName, fields, i + 1, errs)
    \* f.Interface() panics on a field that is not exported
    ELSE IF ~fields[i].exported THEN [panic |-> TRUE, errs |-> <<>>]
    ELSE IF f.kind = "Struct"
    THEN structField(funcs, tagName, fields, i, errs, Validate(funcs, tagName, f))
    ELSE otherField(funcs, tagName, fields, i, errs, Valid(funcs, ToInterface(f), tag))

\* the loop over the fields of the struct, from field i on
validateFields(funcs, tagName, fields, i, errs) ==
    IF i > Len(fields) THEN [panic |-> FALSE, errs |-> errs]
    ELSE validateField(funcs, tagName, fields, i, errs,
                       Deref(fields[i].val), TagGet(fields[i], tagName))

\* if len(verr.errs) > 0 { return false, verr }; return true, nil
ValidateReturn(r) ==
    IF r.panic THEN PanicResult
    ELSE IF DOMAIN r.errs # {}
    THEN [panic |-> FALSE, valid |-> FALSE, kind |-> "Error", errs |-> r.errs]
    ELSE [panic |-> FALSE, valid |-> TRUE, kind |-> "nil", errs |-> <<>>]

Validate(funcs, tagName, v) ==
    IF v.kind = "Ptr" /\ ~v.isNil THEN Validate(funcs, tagName, v.elem)
    ELSE IF v.kind # "Struct"
    THEN [panic |-> FALSE, valid |-> FALSE, kind |-> "ErrUnsupported", errs |-> <<>>]
    ELSE ValidateReturn(validateFields(funcs, tagName, v.fields, 1, <<>>))

-----------------------------------------------------------------------------
(* Validator objects: src/validator.go:22-102.  The field validationFuncs  *)
(* is a Go map, a reference: the model holds the index of the map in heap. *)

\* the map NewValidator builds, src/validator.go:38-44
BuiltinFuncs ==
    [n \in {<<"nonzero">>, <<"len">>, <<"min">>, <<"max">>, <<"regexp">>} |->
        CASE n = <<"nonzero">> -> "nonzero"
          [] n = <<"len">> -> "length"
          [] n = <<"min">> -> "min"
          [] n = <<"max">> -> "max"
          [] n = <<"regexp">> -> "regex"]

\* a nil ValidationFunc
NilFunc == "nilFunc"

\* NewValidator(): the object, given the reference of its new map
NewValidator(ref) == [tagName |-> "validate", validationFuncs |-> ref]

\* mv.copy(): src/validator.go:75-80
copy(mv) == [tagName |-> mv.tagName, validationFuncs |-> mv.validationFuncs]

\* a SetTag that keeps the tag name the validator has
SetTagKeepsName(mv, tag) == mv

\* mv.SetTag(tag): src/validator.go:54-56
SetTag(mv, tag) == [mv EXCEPT !.tagName = tag]

\* mv.WithTag(tag): src/validator.go:68-72
WithTag(mv, tag) == SetTag(copy(mv), tag)

\* a delete that leaves the map as it is
MapDeleteNothing(m, name) == m

\* delete(m, name)
MapDelete(m, name) == [n \in DOMAIN m \ {name} |-> m[n]]

\* m[name] = vf
MapSet(m, name, vf) == [n \in DOMAIN m \cup {name} |-> IF n = name THEN vf ELSE m[n]]

\* a SetValidationFunc that does not look at the name
SetValidationFuncAnyName(m, name, vf) ==
    IF vf = NilFunc THEN [m |-> MapDelete(m, name), err |-> NoErr]
    ELSE [m |-> MapSet(m, name, vf), err |-> NoErr]

\* mv.SetValidationFunc(name, vf): src/validator.go:92-102; the map after the
\* call and the error returned
SetValidationFunc(m, name, vf) ==
    IF name = <<>> THEN [m |-> m, err |-> ErrEmptyName]
    ELSE IF vf = NilFunc THEN [m |-> MapDelete(m, name), err |-> NoErr]
    ELSE [m |-> MapSet(m, name, vf), err |-> NoErr]

\* the validation functions validator v uses
Funcs(v) == heap[validators[v].validationFuncs]

-----------------------------------------------------------------------------
(* The texts and values the calls are made with *)

TagKeys == {"validate", "foo"}

\* a struct tag holding one key
OneTag(key, text) == [k \in {key} |-> text]
\* a struct tag holding both keys
TwoTags(vtext, ftext) == [k \in TagKeys |-> IF k = "validate" THEN vtext ELSE ftext]

\* an exported field whose struct tag is `validate:"<text>"`
Fld(name, text, val) ==
    [name |-> name, exported |-> TRUE, tags |-> OneTag("validate", text), val |-> val]

TNonzero == <<"nonzero">>
TMin1 == <<"min", "=", "1">>
TMin6 == <<"min", "=", "6">>
TMin10 == <<"min", "=", "10">>
TMin12 == <<"min", "=", "12">>
TLenMinMax == <<"len", "=", "8", ",", "min", "=", "6", ",", "max", "=", "4">>
TNonzeroMin1 == <<"nonzero", ",", "min", "=", "1">>
TNonzeroMin12 == <<"nonzero", ",", "min", "=", "12">>
TFoo == <<"foo">>
TCustom == <<"custom">>
TNonzeroFoo == <<"nonzero", ",", "foo">>
TMinEmpty == <<"min", "=">>
TLenEq == <<"len", "=", "=">>
TMaxFoo == <<"max", "=", "foo">>
TRegexpAB == <<"regexp", "=", "a.*b">>
TRegexpAny == <<"regexp", "=", ".*">>
TDash == <<"-">>
TLen3 == <<"len", "=", "3">>
TMax1 == <<"max", "=", "1">>
\* ",nonzero" and "nonzero,=1": an item without a name
TEmptyName == <<",", "nonzero">>
TNonzeroEmptyName == <<"nonzero", ",", "=", "1">>
TMin1Float == <<"min", "=", "1.0">>
\* the tag of TestTagEscape, min=0,regexp=^a{3\,10} with its backslash
TEscaped == <<"min", "=", "0", ",", "regexp", "=", "^a{3", BSlash, ",", "10}">>

S12345 == <<"1", "2", "3", "4", "5">>
Saaa == <<"a", "a", "a">>
Shello == <<"h", "e", "l", "l", "o">>

\* the struct TestCopy validates: A string `validate:"custom"`
CopyTest == StructV(<<Fld("A", TCustom, StrV(<<>>))>>)

\* the struct of ExampleSetTag, with the keys of the model:
\* A int `validate:"nonzero" foo:"min=10"`, A = 5
TagTest ==
    StructV(<<[name |-> "A", exported |-> TRUE,
               tags |-> TwoTags(TNonzero, TMin10), val |-> IntV(5)]>>)

\* A int `validate:"nonzero"`; B string `validate:"custom,min=1"`
MixedTest ==
    StructV(<<Fld("A", TNonzero, IntV(0)),
              Fld("B", <<"custom", ",", "min", "=", "1">>, StrV(<<>>))>>)

\* the values the validators of Spec are called with
ConfigValues == {CopyTest, TagTest, MixedTest}

\* the rule names and functions SetValidationFunc is called with
SetNames == {<<>>, <<"custom">>}
SetFuncs == {NilFunc, "customOK"}

-----------------------------------------------------------------------------
(* The state of a ValidatorCache, as the design describes it *)

\* the runtime types; "tree" holds pointers to itself
Types == {"simple", "tree"}
SelfReferential(t) == t = "tree"

Callers == 1..MaxCallers

NoEntry == [state |-> "absent", routine |-> 0, parts |-> 0, forwards |-> 0]

\* cache.entry: the entries by type; cache.pc, cache.want, cache.got,
\* cache.how: where each caller is, the type it asked for, the routine it
\* was handed and how ("ready", "wait", "compile"); cache.compiled: how
\* often each type was compiled; cache.committed: how often an entry of the
\* type was committed; cache.ran: the routines each caller ran;
\* cache.routines: the routines made so far
EmptyCache ==
    [entry |-> [t \in Types |-> NoEntry],
     pc |-> [c \in Callers |-> "idle"],
     want |-> [c \in Callers |-> "simple"],
     got |-> [c \in Callers |-> 0],
     how |-> [c \in Callers |-> "ready"],
     compiled |-> [t \in Types |-> 0],
     committed |-> [t \in Types |-> 0],
     ran |-> [c \in Callers |-> {}],
     routines |-> 0]

\* the placeholder published for the routine numbered id
Placeholder(id) == [state |-> "placeholder", routine |-> id, parts |-> 0, forwards |-> 0]

-----------------------------------------------------------------------------
(* Spec: Validator objects are made, configured and used *)

\* last.had: the name SetValidationFunc was called with was registered before
NoCall ==
    [op |-> "none", v |-> 0, x |-> NilValue, tag |-> <<>>, arg |-> "", had |-> FALSE,
     res |-> PanicResult]
\* pinned holds one earlier Validate call (none when v = 0) and counts, up
\* to MaxSince, the Validate calls made since
NoPin == [v |-> 0, x |-> NilValue, res |-> PanicResult, since |-> 0]

\* var defaultValidator = NewValidator(): src/validator.go:32
Init ==
    /\ heap = <<BuiltinFuncs>>
    /\ validators = <<NewValidator(1)>>
    /\ last = NoCall
    /\ pinned = NoPin
    /\ cache = EmptyCache

\* v := NewValidator()
DoNewValidator ==
    /\ Len(validators) < MaxValidators
    /\ heap' = Append(heap, BuiltinFuncs)
    /\ validators' = Append(validators, NewValidator(Len(heap) + 1))
    /\ last' = [NoCall EXCEPT !.op = "NewValidator", !.v = Len(validators) + 1]
    /\ UNCHANGED <<pinned, cache>>

\* a WithTag that sets the tag on its receiver and returns it
DoWithTagInPlace(v, tag) ==
    /\ Len(validators) < MaxValidators
    /\ validators' = Append([validators EXCEPT ![v] = SetTag(@, tag)],
                            SetTag(validators[v], tag))
    /\ last' = [NoCall EXCEPT !.op = "WithTag", !.v = v, !.arg = tag]
    /\ UNCHANGED <<heap, pinned, cache>>

\* v2 := v.WithTag(tag); WithTag(tag) of the package when v = 1
DoWithTag(v, tag) ==
    /\ Len(validators) < MaxValidators
    /\ validators' = Append(validators, WithTag(validators[v], tag))
    /\ last' = [NoCall EXCEPT !.op = "WithTag", !.v = v, !.arg = tag]
    /\ UNCHANGED <<heap, pinned, cache>>

\* v.SetTag(tag); SetTag(tag) of the package when v = 1
DoSetTag(v, tag) ==
    /\ validators' = [validators EXCEPT ![v] = SetTag(@, tag)]
    /\ last' = [NoCall EXCEPT !.op = "SetTag", !.v = v, !.arg = tag]
    /\ pinned' = NoPin
    /\ UNCHANGED <<heap, cache>>

\* v.SetValidationFunc(name, vf); SetValidationFunc of the package when v = 1
DoSetValidationFunc(v, name, vf) ==
    LET r == SetValidationFunc(Funcs(v), name, vf) IN
    /\ heap' = [heap EXCEPT ![validators[v].validationFuncs] = r.m]
    /\ last' = [NoCall EXCEPT !.op = "SetValidationFunc", !.v = v, !.tag = name,
                              !.arg = vf, !.had = name \in DOMAIN Funcs(v),
                              !.res.kind = r.err]
    /\ pinned' = NoPin
    /\ UNCHANGED <<validators, cache>>

\* the pin after one more Validate call
Later(pin) ==
    IF pin.v = 0 \/ pin.since = MaxSince THEN pin ELSE [pin EXCEPT !.since = @ + 1]

\* a Validate that also puts the validator's tag name back to "validate"
DoValidateResetsTag(v, x) ==
    /\ last' = [NoCall EXCEPT !.op = "Validate", !.v = v, !.x = x,
                              !.res = Validate(Funcs(v), validators[v].tagName, x)]
    /\ pinned' \in {Later(pinned), [v |-> v, x |-> x, res |-> last'.res, since |-> 0]}
    /\ validators' = [validators EXCEPT ![v] = SetTag(@, "validate")]
    /\ UNCHANGED <<heap, cache>>

\* v.Validate(x); Validate(x) of the package when v = 1
DoValidate(v, x) ==
    /\ last' = [NoCall EXCEPT !.op = "Validate", !.v = v, !.x = x,
                              !.res = Validate(Funcs(v), validators[v].tagName, x)]
    /\ pinned' \in {Later(pinned), [v |-> v, x |-> x, res |-> last'.res, since |-> 0]}
    /\ UNCHANGED <<validators, heap, cache>>

Next ==
    \/ DoNewValidator
    \/ \E v \in 1..Len(validators) : \E tag \in TagKeys : DoWithTag(v, tag)
    \/ \E v \in 1..Len(validators) : \E tag \in TagKeys : DoSetTag(v, tag)
    \/ \E v \in 1..Len(validators) : \E name \in SetNames : \E vf \in SetFuncs :
            DoSetValidationFunc(v, name, vf)
    \/ \E v \in 1..Len(validators) : \E x \in ConfigValues : DoValidate(v, x)

Spec == Init /\ [][Next]_vars

-----------------------------------------------------------------------------
(* SpecV: one validator, whose map is one of Registries, is called once    *)
(* with a value of the pools below and returns.                            *)

\* maps a validator can hold: NewValidator's, and the same after
\* SetValidationFunc("custom", f) and after SetValidationFunc("min", nil)
Registries ==
    {BuiltinFuncs,
     SetValidationFunc(BuiltinFuncs, <<"custom">>, "customOK").m,
     SetValidationFunc(BuiltinFuncs, <<"min">>, NilFunc).m}

Chars == <<"1", "2", "3", "4", "5", "6", "7", "8">>

StrValues ==
    {StrV(SubSeq(Chars, 1, n)) : n \in 0..MaxStrLen}
    \cup {StrV(<<"a", "b">>), StrV(<<"a", "a">>), StrV(Saaa)}
IntValues == {IntV(n) : n \in 0..MaxNum}
FloatValues == {FloatV(0), FloatV(MaxNum)}

\* values that are no struct and point to none
PrimValues ==
    StrValues \cup IntValues \cup FloatValues
    \cup {NilPtr, NilIface, PtrTo(StrV(Saaa))} \cup {PtrTo(x) : x \in IntValues}

\* the texts of the validate tag
TagTexts ==
    {<<>>, TNonzero, TMin1, TMin6, TMin12, TLenMinMax, TNonzeroMin1, TNonzeroMin12,
     TFoo, TCustom, TNonzeroFoo, TMinEmpty, TLenEq, TMaxFoo, TRegexpAB, TRegexpAny,
     TDash, TEscaped, TMax1, TMin1Float, TEmptyName, TNonzeroEmptyName}

\* structs of one field, to nest
InnerStructs ==
    {StructV(<<Fld("B", t, x)>>) :
        t \in {TNonzero, TMin1, TFoo, TMinEmpty}, x \in {IntV(0), IntV(MaxNum)}}

FieldValues == PrimValues \cup InnerStructs \cup {PtrTo(x) : x \in InnerStructs}

FirstFields == {Fld("A", t, x) : t \in TagTexts, x \in FieldValues}

SecondFields ==
    {Fld("B", TNonzero, IntV(0)), Fld("B", TNonzero, IntV(MaxNum)),
     Fld("B", TFoo, IntV(MaxNum)), Fld("B", TMinEmpty, StrV(<<>>)),
     Fld("B", <<>>, StructV(<<Fld("C", TMin1, IntV(0))>>))}

\* type tree struct { Val int `validate:"min=1"`; Left, Right *tree }
tree(val, left, right) ==
    StructV(<<Fld("Val", TMin1, IntV(val)), Fld("Left", <<>>, left),
              Fld("Right", <<>>, right)>>)

\* the *tree values of n nodes, Val being 0 or 1
RECURSIVE TreePtrs(_)
TreePtrs(n) ==
    IF n = 0 THEN {NilPtr}
    ELSE UNION {{PtrTo(tree(v, l, r)) :
                    v \in 0..1, l \in TreePtrs(k), r \in TreePtrs(n - 1 - k)} :
                k \in 0..(n - 1)}

\* the trees of at most MaxNodes nodes
Trees == {p.elem : p \in UNION {TreePtrs(n) : n \in 1..MaxNodes}}

\* type Simple struct { A int `validate:"min=10"` }
Simple(n) == StructV(<<Fld("A", TMin10, IntV(n))>>)

\* values of type []Simple and [][]Simple, of two elements
SliceValues ==
    {SliceV(<<Simple(m), Simple(n)>>) : m, n \in {1, 10}}
    \cup {SliceV(<<SliceV(<<Simple(m)>>), SliceV(<<Simple(n)>>)>>) : m, n \in {1, 10}}

\* struct { Slices []Simple } and struct { Slices [][]Simple }, the field
\* with no tag or with a rule on the slice itself
SliceTests == {StructV(<<Fld("Slices", t, x)>>) : t \in {<<>>, TMin1}, x \in SliceValues}

\* type Impl struct { F string `validate:"len=3"` }
Impl(s) == StructV(<<Fld("F", TLen3, StrV(s))>>)

\* struct { E I }, E holding nil, &Impl{"hello"} or &Impl{"aaa"}, the field
\* with no tag or tagged nonzero
IfaceTests ==
    {StructV(<<Fld("E", t, x)>>) :
        t \in {<<>>, TNonzero},
        x \in {NilIface, Iface(PtrTo(Impl(Shello))), Iface(PtrTo(Impl(Saaa)))}}

\* a field whose struct tag is `validate:"<text>" json:"<json>"`
JFld(name, text, json, val) ==
    [name |-> name, exported |-> TRUE,
     tags |-> [k \in {"validate", "json"} |-> IF k = "validate" THEN text ELSE json],
     val |-> val]

\* struct { A string `validate:"nonzero" json:"a,omitempty"`
\*          B string `validate:"nonzero" json:"b"` }
JSONTests ==
    {StructV(<<JFld("A", TNonzero, <<"a", ",", "omitempty">>, x),
               JFld("B", TNonzero, <<"b">>, y)>>) :
        x, y \in {StrV(<<>>), StrV(Saaa)}}

\* a field that is not exported, its struct tag `validate:"<text>"`
UFld(name, text, val) == [Fld(name, text, val) EXCEPT !.exported = FALSE]

\* struct { A int `validate:"nonzero"`; unexported int `validate:"..."` },
\* the second field of TestStruct with and without its tag
UnexportedTests ==
    {StructV(<<Fld("A", TNonzero, x), UFld("unexported", t, y)>>) :
        x \in {IntV(0), IntV(MaxNum)}, t \in {<<>>, TNonzero},
        y \in {IntV(0), IntV(MaxNum)}}

\* the structs Validate is called with
StructValues ==
    {StructV(<<f>>) : f \in FirstFields}
    \cup {StructV(<<f, g>>) : f \in FirstFields, g \in SecondFields}
    \cup Trees
    \cup SliceTests
    \cup IfaceTests
    \cup JSONTests
    \cup UnexportedTests

VInit ==
    /\ heap \in {<<m>> : m \in Registries}
    /\ validators = <<NewValidator(1)>>
    /\ last = NoCall
    /\ pinned = NoPin
    /\ cache = EmptyCache

\* Validate(x)
VValidate(x) ==
    /\ last.op = "none"
    /\ last' = [NoCall EXCEPT !.op = "Validate", !.v = 1, !.x = x,
                              !.res = Validate(Funcs(1), validators[1].tagName, x)]
    /\ UNCHANGED <<validators, heap, pinned, cache>>

\* the values Valid is called with: those that are no struct, and structs
\* behind no, one and two pointers
\* the lists of at most MaxNum items
Lists == {[i \in 1..n |-> IntV(0)] : n \in 0..MaxNum}

\* unsigned integers, one more float, and slices, maps and arrays
MeasuredValues ==
    {UintV(n) : n \in 0..MaxNum} \cup {FloatV(1)}
    \cup {SliceV(l) : l \in Lists} \cup {MapV(l) : l \in Lists}
    \cup {ArrayV(l) : l \in Lists}

ValidValues ==
    PrimValues \cup InnerStructs \cup {PtrTo(x) : x \in InnerStructs}
    \cup {PtrTo(PtrTo(x)) : x \in InnerStructs}
    \cup MeasuredValues

\* Valid(x, tag)
VValid(x, tag) ==
    /\ last.op = "none"
    /\ last' = [NoCall EXCEPT !.op = "Valid", !.v = 1, !.x = x, !.tag = tag,
                              !.res = Valid(Funcs(1), x, tag)]
    /\ UNCHANGED <<validators, heap, pinned, cache>>

\* the caller goes on to its next call
VReturn ==
    /\ last.op # "none"
    /\ last' = NoCall
    /\ UNCHANGED <<validators, heap, pinned, cache>>

VNext ==
    \/ \E x \in StructValues : VValidate(x)
    \/ \E x \in ValidValues : \E tag \in TagTexts : VValid(x, tag)
    \/ VReturn

SpecV == VInit /\ [][VNext]_vars

-----------------------------------------------------------------------------
(* ValidatorCache: get_or_compile(type), as the design describes it.       *)
(* An entry is absent, a placeholder published before the compilation of   *)
(* its type ends, or ready.  The routine of a type is built in             *)
(* CompileParts parts; a self-referential type asks for its own routine    *)
(* while it is being built and gets the forwarding handle.                 *)

\* a lookup that takes a placeholder for a finished routine
GetOrCompileNoLatch(c, t) ==
    /\ cache.pc[c] = "idle"
    /\ IF cache.entry[t].state # "absent"
       THEN cache' = [cache EXCEPT !.want[c] = t, !.pc[c] = "run", !.how[c] = "ready",
                                   !.got[c] = cache.entry[t].routine]
       ELSE cache' = [cache EXCEPT !.want[c] = t, !.pc[c] = "compile",
                                   !.how[c] = "compile",
                                   !.routines = @ + 1,
                                   !.compiled[t] = @ + 1,
                                   !.entry[t] = Placeholder(cache.routines + 1)]
    /\ UNCHANGED <<validators, heap, last, pinned>>

\* get_or_compile(t) by caller c: one serialized look at the entry of t.  A
\* ready entry is handed out; a placeholder makes the caller wait on its
\* latch; with no entry the caller publishes the placeholder and compiles.
GetOrCompile(c, t) ==
    /\ cache.pc[c] = "idle"
    /\ CASE cache.entry[t].state = "ready" ->
                cache' = [cache EXCEPT !.want[c] = t, !.pc[c] = "run",
                                       !.how[c] = "ready",
                                       !.got[c] = cache.entry[t].routine]
         [] cache.entry[t].state = "placeholder" ->
                cache' = [cache EXCEPT !.want[c] = t, !.pc[c] = "wait",
                                       !.how[c] = "wait"]
         [] cache.entry[t].state = "absent" ->
                cache' = [cache EXCEPT !.want[c] = t, !.pc[c] = "compile",
                                       !.how[c] = "compile",
                                       !.routines = @ + 1,
                                       !.compiled[t] = @ + 1,
                                       !.entry[t] = Placeholder(cache.routines + 1)]
    /\ UNCHANGED <<validators, heap, last, pinned>>

\* the compiling caller builds the next part of the routine; for a
\* self-referential type the part asks for the type's own routine and is
\* given the forwarding handle of the placeholder
CompilePart(c) ==
    /\ cache.pc[c] = "compile"
    /\ cache.entry[cache.want[c]].parts < CompileParts
    /\ cache' = [cache EXCEPT
            !.entry[cache.want[c]].parts = @ + 1,
            !.entry[cache.want[c]].forwards =
                IF SelfReferential(cache.want[c]) THEN @ + 1 ELSE @]
    /\ UNCHANGED <<validators, heap, last, pinned>>

\* the compilation is finished: the entry is committed and the latch opens
Commit(c) ==
    /\ cache.pc[c] = "compile"
    /\ cache.entry[cache.want[c]].parts = CompileParts
    /\ cache' = [cache EXCEPT
            !.entry[cache.want[c]].state = "ready",
            !.committed[cache.want[c]] = @ + 1,
            !.got[c] = cache.entry[cache.want[c]].routine,
            !.pc[c] = "run"]
    /\ UNCHANGED <<validators, heap, last, pinned>>

\* a waiting caller is handed the routine once the latch is open
Await(c) ==
    /\ cache.pc[c] = "wait"
    /\ cache.entry[cache.want[c]].state = "ready"
    /\ cache' = [cache EXCEPT !.got[c] = cache.entry[cache.want[c]].routine,
                              !.pc[c] = "run"]
    /\ UNCHANGED <<validators, heap, last, pinned>>

\* the caller runs the routine it was handed, and is free for its next call
Run(c) ==
    /\ cache.pc[c] = "run"
    /\ cache' = [cache EXCEPT
            !.ran[c] = @ \cup {[type |-> cache.want[c], routine |-> cache.got[c],
                                how |-> cache.how[c],
                                parts |-> cache.entry[cache.want[c]].parts]},
            !.pc[c] = "idle"]
    /\ UNCHANGED <<validators, heap, last, pinned>>

CInit ==
    /\ heap = <<BuiltinFuncs>>
    /\ validators = <<NewValidator(1)>>
    /\ last = NoCall
    /\ pinned = NoPin
    /\ cache = EmptyCache

CNext ==
    \/ \E c \in Callers : \E t \in Types : GetOrCompile(c, t)
    \/ \E c \in Callers : CompilePart(c)
    \/ \E c \in Callers : Commit(c)
    \/ \E c \in Callers : Await(c)
    \/ \E c \in Callers : Run(c)

SpecC == CInit /\ [][CNext]_vars

-----------------------------------------------------------------------------
(* What the claims speak of *)

\* strings.Split(t, ","): the items of a tag text, cut at every comma
RECURSIVE SplitComma(_)
SplitComma(t) ==
    IF Index(t, ",") = 0 THEN <<t>>
    ELSE <<SubSeq(t, 1, Index(t, ",") - 1)>>
            \o SplitComma(SubSeq(t, Index(t, ",") + 1, Len(t)))

\* the rule name an item of a tag text gives
ItemName(item) == Trim(SplitN2(item)[1])
\* the parameter an item of a tag text gives
ItemParam(item) == IF Len(SplitN2(item)) > 1 THEN Trim(SplitN2(item)[2]) ELSE <<>>

\* the rule names a tag text lists
RuleNames(t) == {ItemName(SplitComma(t)[i]) : i \in 1..Len(SplitComma(t))}

\* the call made last was Validate on a struct
ValidatedStruct == last.op = "Validate" /\ last.x.kind = "Struct"

\* the fields of the struct validated last
LastFields == last.x.fields

\* the text of field i's tag under the tag name of the validator called
LastTag(i) == TagGet(LastFields[i], validators[last.v].tagName)

\* the paths of the result at or below the field called name
Under(errs, name) == {p \in DOMAIN errs : p[1] = name}

\* what Validate reports for field i alone: a struct holding only that field
Alone(i) == Validate(Funcs(last.v), validators[last.v].tagName, StructV(<<LastFields[i]>>))

\* the error map a call returned; none when it did not return
Reported(res) == IF res.panic THEN <<>> ELSE res.errs

\* the words of an error's message: src/error.go:19-43
ErrorText(err) ==
    CASE err = ErrZeroValue -> <<"zero", " ", "value">>
      [] err = ErrMin -> <<"less", " ", "than", " ", "min">>
      [] err = ErrMax -> <<"greater", " ", "than", " ", "max">>
      [] err = ErrLen -> <<"invalid", " ", "length">>
      [] err = ErrRegexp -> <<"regular", " ", "expression", " ", "mismatch">>
      [] err = ErrUnsupported -> <<"unsupported", " ", "type">>
      [] err = ErrBadParameter -> <<"bad", " ", "parameter">>
      [] err = ErrUnknownTag -> <<"unknown", " ", "tag">>
      [] err = ErrInvalid -> <<"invalid", " ", "value">>
      [] OTHER -> <<err>>

\* the message of err holds the one-word text name
Mentions(err, name) ==
    \E k \in 1..Len(ErrorText(err)) : <<ErrorText(err)[k]>> = name

\* the rule an item names is a builtin that reads a number from its parameter,
\* and the parameter is no number of the kind the value v asks for
BadParameter(funcs, v, item) ==
    /\ ItemName(item) \in DOMAIN funcs
    /\ funcs[ItemName(item)] \in {"length", "min", "max"}
    /\ \/ v.kind \in {"String", "Slice", "Map", "Array", "Int"} /\ ~IsInt(ItemParam(item))
       \/ v.kind = "Uint" /\ ~IsUint(ItemParam(item))
       \/ v.kind = "Float64" /\ ~IsFloat(ItemParam(item))

\* every rule the tag text lists is registered to one of the functions fns
ListsOnly(funcs, t, fns) ==
    \A n \in RuleNames(t) : n \in DOMAIN funcs /\ funcs[n] \in fns

\* y, a value that is no pointer, is the zero value of its type
ZeroValue(y) ==
    CASE y.kind = "String" -> y.s = <<>>
      [] y.kind \in {"Int", "Uint", "Float64"} -> y.n = 0
      [] y.kind = "Bool" -> ~y.b
      [] y.kind \in {"Slice", "Map", "Array"} -> y.elems = <<>>
      [] OTHER -> FALSE

\* the pointee y of a field tagged nonzero is valid: a struct that Validate
\* accepts, or a value that is not the zero value
PointeeValid(y) ==
    IF Deref(y).kind = "Struct"
    THEN Validate(Funcs(last.v), validators[last.v].tagName, y).valid
    ELSE ~Deref(y).kind \in {"Ptr", "Interface", "Invalid"} /\ ~ZeroValue(Deref(y))

-----------------------------------------------------------------------------
(* The claims *)

\* C1: a validator that WithTag (copy) returned is independent of the one it
\* was copied from: SetValidationFunc on one validator leaves the validation
\* functions of every other validator as they were.
C1_CopyIsolated ==
    [][last'.op = "SetValidationFunc" =>
        \A w \in 1..Len(validators) : w # last'.v => Funcs(w)' = Funcs(w)]_vars

\* C2: Validate never stops at the first failing field: whatever the other
\* fields do, the result holds for every field the violations the field gives
\* when it is validated alone.
C2_EveryFieldChecked ==
    ValidatedStruct =>
        \A i \in 1..Len(LastFields) :
            \A p \in Under(Reported(Alone(i)), LastFields[i].name) :
                /\ p \in DOMAIN Reported(last.res)
                /\ Reported(last.res)[p] = Reported(Alone(i))[p]

\* the violations rule k of the tag of the last call gives as the only rule
OwnErrs(k) == Reported(Valid(Funcs(last.v), last.x, SplitComma(last.tag)[k]))

\* the violations of the rules from rule k on, in tag order
RECURSIVE OwnErrsFrom(_)
OwnErrsFrom(k) ==
    IF k > Len(SplitComma(last.tag)) THEN <<>> ELSE OwnErrs(k) \o OwnErrsFrom(k + 1)

\* C3: for a value that is no struct and a tag that lists registered rules
\* only, every rule is evaluated and the violations reported are those of
\* the failing rules, in tag order: a rule's failure hides no other rule's
\* violation.
C3_AllRulesInTagOrder ==
    (last.op = "Valid" /\ Deref(last.x).kind # "Struct"
        /\ RuleNames(last.tag) \subseteq DOMAIN Funcs(last.v))
        => Reported(last.res) = OwnErrsFrom(1)

\* C4: a field tagged "-" is never visited: the result holds no path at or
\* below the field, whatever the field holds.
C4_DashNeverVisited ==
    ValidatedStruct =>
        \A i \in 1..Len(LastFields) :
            LastTag(i) = TDash => Under(Reported(last.res), LastFields[i].name) = {}

\* the rule names field i's tag lists that are not registered
UnknownNames(i) == RuleNames(LastTag(i)) \ DOMAIN Funcs(last.v)

\* C5: a field whose tag names a rule that is not registered gets exactly one
\* violation at its path, the unknown-rule violation, naming that rule.
C5_UnknownRuleReported ==
    (ValidatedStruct /\ ~last.res.panic) =>
        \A i \in 1..Len(LastFields) :
            (LastTag(i) \notin {<<>>, TDash} /\ UnknownNames(i) # {}) =>
                /\ <<LastFields[i].name>> \in DOMAIN last.res.errs
                /\ last.res.errs[<<LastFields[i].name>>] = <<ErrUnknownTag>>
                /\ \E n \in UnknownNames(i) : Mentions(ErrUnknownTag, n)

\* C6: a rule whose parameter cannot be parsed for the field's type is
\* reported as one bad-parameter violation at the field's path; the call
\* returns.
C6_BadParameterReported ==
    ValidatedStruct =>
        \A i \in 1..Len(LastFields) :
            (/\ Len(SplitComma(LastTag(i))) = 1
             /\ BadParameter(Funcs(last.v), Deref(LastFields[i].val), LastTag(i))) =>
                /\ ~last.res.panic
                /\ <<LastFields[i].name>> \in DOMAIN last.res.errs
                /\ last.res.errs[<<LastFields[i].name>>] = <<ErrBadParameter>>

\* C7: regexp on an integer or float field is reported as an unsupported-type
\* violation at the field's path; the call returns.
C7_RegexpUnsupportedReported ==
    ValidatedStruct =>
        \A i \in 1..Len(LastFields) :
            (/\ Len(SplitComma(LastTag(i))) = 1
             /\ ListsOnly(Funcs(last.v), LastTag(i), {"regex"})
             /\ Deref(LastFields[i].val).kind \in {"Int", "Float64"}) =>
                /\ ~last.res.panic
                /\ <<LastFields[i].name>> \in DOMAIN last.res.errs
                /\ last.res.errs[<<LastFields[i].name>>] = <<ErrUnsupported>>

\* C8: a nil pointer field whose tag lists rules on the pointee (min, max,
\* len, regexp) gets no violation; the call returns.
C8_NilPointerSkipsValueRules ==
    ValidatedStruct =>
        \A i \in 1..Len(LastFields) :
            (/\ LastFields[i].val = NilPtr
             /\ ListsOnly(Funcs(last.v), LastTag(i), {"min", "max", "length", "regex"})) =>
                /\ ~last.res.panic
                /\ Under(last.res.errs, LastFields[i].name) = {}

C10_ValidateIdempotent ==
    (last.op = "Validate" /\ pinned.v = last.v /\ pinned.x = last.x)
        => pinned.res = last.res

\* a value was validated and found invalid, another validation was made, and
\* the first validator validated the value again
C10_Witness ==
    /\ last.op = "Validate"
    /\ pinned.v = last.v
    /\ pinned.x = last.x
    /\ pinned.since = 2
    /\ ~last.res.valid
    /\ ~last.res.panic

\* C11: callers that ask one cache for the same type at the same time: the
\* type is compiled at most once, at most one entry is committed for it
\* (exactly one once it is ready), every caller that is handed a routine is
\* handed the one the entry holds, and a routine is run only when all its
\* parts are built.
C11_CompiledOnce ==
    /\ \A t \in Types :
        /\ cache.compiled[t] <= 1
        /\ cache.committed[t] <= 1
        /\ cache.entry[t].state = "ready" => cache.committed[t] = 1
        /\ cache.entry[t].state = "absent" => cache.compiled[t] = 0
    /\ \A c \in Callers :
        /\ cache.pc[c] = "run" =>
            /\ cache.entry[cache.want[c]].state = "ready"
            /\ cache.entry[cache.want[c]].parts = CompileParts
            /\ cache.got[c] = cache.entry[cache.want[c]].routine
        /\ \A r \in cache.ran[c] :
            /\ r.parts = CompileParts
            /\ r.routine = cache.entry[r.type].routine

\* two callers asked for the tree type before its routine existed: one
\* compiled it, the other waited, and both ran the one routine
C11_Witness ==
    /\ cache.compiled["tree"] = 1
    /\ cache.entry["tree"].forwards = CompileParts
    /\ \E c \in Callers : \E r \in cache.ran[c] : r.type = "tree" /\ r.how = "compile"
    /\ \E c \in Callers : \E r \in cache.ran[c] : r.type = "tree" /\ r.how = "wait"

\* the paths of the nodes of tree t whose Val is less than 1
RECURSIVE FailingNodes(_)
FailingNodes(t) ==
    (IF t.fields[1].val.n < 1 THEN {<<"Val">>} ELSE {})
    \cup (IF t.fields[2].val.isNil THEN {}
          ELSE {<<"Left">> \o p : p \in FailingNodes(t.fields[2].val.elem)})
    \cup (IF t.fields[3].val.isNil THEN {}
          ELSE {<<"Right">> \o p : p \in FailingNodes(t.fields[3].val.elem)})

\* C12: Validate on a finite tree of a self-referential type returns, and
\* reports exactly the nodes whose Val fails min=1, each at its path
\* ("Val", "Left.Val", "Left.Right.Val"), with the violation of min; nil
\* children give nothing.
C12_TreeFailingNodes ==
    (ValidatedStruct /\ last.x \in Trees /\ ListsOnly(Funcs(last.v), TMin1, {"min"})) =>
        /\ ~last.res.panic
        /\ DOMAIN last.res.errs = FailingNodes(last.x)
        /\ \A p \in FailingNodes(last.x) : last.res.errs[p] = <<ErrMin>>
        /\ last.res.valid = (FailingNodes(last.x) = {})

\* a tree of three nodes whose root passes, whose Left passes and has a nil
\* Left, and whose Left.Right fails
C12_Witness ==
    /\ ValidatedStruct
    /\ last.x \in Trees
    /\ ~last.res.panic
    /\ DOMAIN last.res.errs = {<<"Left", "Right", "Val">>}
    /\ last.x.fields[3].val = NilPtr

\* the path segment "[j]" of the element at index j
IndexSegment(j) == <<"[0]", "[1]", "[2]", "[3]">>[j + 1]

\* the paths, from a slice (or nested slice) of structs down, of the
\* violations of its elements: "[i]" and then the element's own paths
RECURSIVE ElementPaths(_)
ElementPaths(x) ==
    CASE x.kind = "Slice" ->
            UNION {{<<IndexSegment(j - 1)>> \o p : p \in ElementPaths(x.elems[j])} :
                    j \in 1..Len(x.elems)}
      [] x.kind = "Struct" ->
            DOMAIN Reported(Validate(Funcs(last.v), validators[last.v].tagName, x))
      [] OTHER -> {}

\* C13: for a field that is a slice, or a slice of slices, of structs, the
\* result holds the violations of every failing element under the field
\* name followed by "[i]" ("Slices[0].A", "Slices[1][0].A"), and nothing
\* else below the field.
C13_SliceElementsChecked ==
    (ValidatedStruct /\ ~last.res.panic) =>
        \A i \in 1..Len(LastFields) :
            LastFields[i].val.kind = "Slice" =>
                {p \in Under(last.res.errs, LastFields[i].name) : Len(p) > 1}
                    = {<<LastFields[i].name>> \o q : q \in ElementPaths(LastFields[i].val)}

\* what Validate reports for the value x alone
Nested(x) == Reported(Validate(Funcs(last.v), validators[last.v].tagName, x))

\* C14: for a field of interface type, a nil held value gives no violation
\* below the field, and a held pointer to a struct is validated as that
\* struct: its violations appear under the field's path ("E.F").
C14_InterfaceHeldValueChecked ==
    (ValidatedStruct /\ ~last.res.panic) =>
        \A i \in 1..Len(LastFields) :
            LastFields[i].val.kind = "Interface" =>
                /\ LastFields[i].val.isNil =>
                    {p \in Under(last.res.errs, LastFields[i].name) : Len(p) > 1} = {}
                /\ (~LastFields[i].val.isNil /\ Deref(LastFields[i].val.elem).kind = "Struct") =>
                    \A q \in DOMAIN Nested(LastFields[i].val.elem) :
                        /\ <<LastFields[i].name>> \o q \in DOMAIN last.res.errs
                        /\ last.res.errs[<<LastFields[i].name>> \o q]
                                = Nested(LastFields[i].val.elem)[q]

\* the call made last was Valid on a value that is no struct and points to
\* none
ValidOnPlainValue == last.op = "Valid" /\ Deref(last.x).kind # "Struct"

\* C15: an empty tag text lists no rule and is no error: Valid(x, "")
\* returns valid and no violation, for every x that is no struct.
C15_EmptyTagNoRules ==
    (ValidOnPlainValue /\ last.tag = <<>>) =>
        /\ ~last.res.panic
        /\ last.res.valid
        /\ last.res.errs = <<>>

\* s is a string of the letter a only
OnlyAs(s) == \A k \in 1..Len(s) : s[k] = "a"

\* C16: in "min=0,regexp=^a{3\,10}" the escaped comma does not split: the
\* tag lists min with parameter 0 and regexp with parameter ^a{3,10}, so
\* a string of 3 to 10 letters a passes and a shorter one fails the regexp
\* rule alone.
C16_EscapedCommaKept ==
    (ValidOnPlainValue /\ last.tag = TEscaped
        /\ Deref(last.x).kind = "String" /\ OnlyAs(Deref(last.x).s)
        /\ ListsOnly(Funcs(last.v), <<"min", ",", "regexp">>, {"min", "regex"})) =>
            /\ ~last.res.panic
            /\ Len(Deref(last.x).s) \in 3..10 => last.res.valid /\ last.res.errs = <<>>
            /\ Len(Deref(last.x).s) < 3 =>
                /\ ~last.res.valid
                /\ Len(last.res.errs) = 1
                /\ last.res.errs[1] \in {ErrRegexp, ErrRegexNoMatch}

DocumentedBuiltins ==
    {<<"nonzero">>, <<"len">>, <<"min">>, <<"max">>, <<"regexp">>, <<"uuid">>,
     <<"required">>, <<"latitude">>, <<"longitude">>}

\* the validator that is fresh in this state: defaultValidator before any
\* call, or the one NewValidator has just returned
Fresh == IF last.op = "NewValidator" THEN last.v ELSE 1

\* C18: a fresh Validator, and the default one, has every documented
\* builtin registered under its name: a tag naming one is no unknown tag.
C18_BuiltinsRegistered ==
    last.op \in {"none", "NewValidator"} =>
        \A n \in DocumentedBuiltins :
            /\ n \in DOMAIN Funcs(Fresh)
            /\ parseTags(Funcs(Fresh), n).err # ErrUnknownTag

\* the step is a call of SetValidationFunc
SetCalled == last'.op = "SetValidationFunc"

\* the map of the validator the call is made on, before and after the call
MapBefore == heap[validators[last'.v].validationFuncs]
MapAfter == heap'[validators[last'.v].validationFuncs]

-----------------------------------------------------------------------------
(* C21: the default validator, validators[1], is the one that the Validate *)
(* and Valid of the package use.                                           *)

\* C21: no operation changes the tag name or the rule set of the default
\* validator: after every step it reads the same struct tag and holds the
\* same rules as before the step.
C21_DefaultNeverChanges ==
    [][/\ validators'[1].tagName = validators[1].tagName
       /\ heap'[validators'[1].validationFuncs] = heap[validators[1].validationFuncs]]_vars

-----------------------------------------------------------------------------
(* C22 *)

\* C22: v.WithTag(t) returns a new Validator whose tag name is t, so that it
\* reads the rules of struct tag t (the struct of ExampleWithTag is valid
\* under the tag holding nonzero and fails min under the other), and leaves
\* the tag name of v and of every other validator as it was: a validation
\* made with v gives the same result before and after the call.
C22_WithTagLeavesReceiver ==
    [][last'.op = "WithTag" =>
        LET new == validators'[Len(validators')] IN
        /\ Len(validators') = Len(validators) + 1
        /\ new.tagName = last'.arg
        /\ Validate(heap'[new.validationFuncs], new.tagName, TagTest).valid
                = (last'.arg = "validate")
        /\ \A w \in 1..Len(validators) :
            /\ validators'[w].tagName = validators[w].tagName
            /\ \A x \in ConfigValues :
                Validate(heap'[validators'[w].validationFuncs], validators'[w].tagName, x)
                    = Validate(Funcs(w), validators[w].tagName, x)]_vars

\* WithTag("foo") was called on a validator that reads "validate", and it
\* still does, while the new validator reads "foo"
C22_Witness ==
    /\ last.op = "WithTag"
    /\ last.arg = "foo"
    /\ validators[last.v].tagName = "validate"
    /\ validators[Len(validators)].tagName = "foo"
    /\ Validate(Funcs(last.v), "validate", TagTest).valid
    /\ ~Validate(Funcs(Len(validators)), "foo", TagTest).valid

-----------------------------------------------------------------------------
(* C23 *)

\* struct x with every field's struct tag cut down to the one key t
OnlyTag(x, t) ==
    StructV([i \in DOMAIN x.fields |->
                [x.fields[i] EXCEPT !.tags = OneTag(t, TagGet(x.fields[i], t))]])

\* C23: SetTag(t) makes t the tag name of its validator and of no other, no
\* other operation changes the tag name of an existing validator, and
\* Validate reads every field's rules from the tag its validator names, that
\* is the one of the most recent SetTag: the result is the one for the
\* struct without its other tags, and A = 5 tagged validate:"nonzero"
\* foo:"min=10" is valid under "validate" and fails min under "foo".
C23_ReadsMostRecentTag ==
    /\ [][/\ last'.op = "SetTag" => validators'[last'.v].tagName = last'.arg
          /\ \A w \in 1..Len(validators) :
                (last'.op # "SetTag" \/ last'.v # w) =>
                    validators'[w].tagName = validators[w].tagName]_vars
    /\ [](last.op = "Validate" =>
            LET t == validators[last.v].tagName IN
            /\ last.res = Validate(Funcs(last.v), t, OnlyTag(last.x, t))
            /\ last.x = TagTest =>
                /\ ~last.res.panic
                /\ t = "validate" => last.res.valid
                /\ t = "foo" =>
                    /\ ~last.res.valid
                    /\ DOMAIN last.res.errs = {<<"A">>}
                    /\ last.res.errs[<<"A">>] = <<ErrMin>>)

\* the default validator, made with tag name "validate", reads "foo" after
\* SetTag("foo"): the struct fails min
C23_Witness ==
    /\ last.op = "Validate"
    /\ last.v = 1
    /\ last.x = TagTest
    /\ validators[1].tagName = "foo"
    /\ ~last.res.valid
    /\ last.res.errs[<<"A">>] = <<ErrMin>>

-----------------------------------------------------------------------------
(* C24 *)

\* the name a field's json annotation gives, without its options; the
\* field's own name when it has no annotation
JSONName(field) ==
    IF "json" \in DOMAIN field.tags /\ SplitComma(field.tags["json"])[1] # <<>>
    THEN SplitComma(field.tags["json"])[1][1]
    ELSE field.name

\* C24: the violations of a field that is no struct are keyed by the name
\* of the field's json annotation, options such as ",omitempty" left out,
\* and by the field's own name when it has no annotation; a field whose
\* annotation gives another name has no key of its own name.
C24_JSONNameIsKey ==
    (ValidatedStruct /\ ~last.res.panic) =>
        \A i \in 1..Len(LastFields) :
            (Deref(LastFields[i].val).kind # "Struct" /\ Alone(i).kind = "Error") =>
                /\ <<JSONName(LastFields[i])>> \in DOMAIN last.res.errs
                /\ last.res.errs[<<JSONName(LastFields[i])>>]
                        = Alone(i).errs[<<LastFields[i].name>>]
                /\ (\A j \in 1..Len(LastFields) :
                        JSONName(LastFields[j]) # LastFields[i].name)
                        => <<LastFields[i].name>> \notin DOMAIN last.res.errs

-----------------------------------------------------------------------------
(* C25 *)

\* C25: a field that is not exported is never validated: whatever its tag
\* and value, the result has no key at or below its name, and Validate
\* returns unless an exported field alone makes it abort.
C25_UnexportedNeverChecked ==
    ValidatedStruct =>
        \A i \in 1..Len(LastFields) :
            ~LastFields[i].exported =>
                /\ Under(Reported(last.res), LastFields[i].name) = {}
                /\ last.res.panic =>
                    \E j \in 1..Len(LastFields) :
                        LastFields[j].exported /\ Alone(j).panic

-----------------------------------------------------------------------------
(* C26 *)

\* what min and max compare: the value of a number, the length of a string,
\* slice, array or map
Measure(y) ==
    CASE y.kind \in {"Int", "Uint", "Float64"} -> y.n
      [] y.kind = "String" -> Len(y.s)
      [] y.kind \in {"Slice", "Map", "Array"} -> Len(y.elems)

\* the parameter is a literal of the number type rule min or max reads for y
LiteralFor(y, param) ==
    CASE y.kind = "Uint" -> IsUint(param)
      [] y.kind = "Float64" -> IsFloat(param)
      [] OTHER -> IsInt(param)

\* the last call was Valid with the one rule name=p on a number, string,
\* slice, array or map, p being a literal for it
BoundCall(name) ==
    /\ last.op = "Valid"
    /\ Len(SplitComma(last.tag)) = 1
    /\ ItemName(last.tag) = name
    /\ name \in DOMAIN Funcs(last.v)
    /\ Deref(last.x).kind \in
            {"Int", "Uint", "Float64", "String", "Slice", "Map", "Array"}
    /\ LiteralFor(Deref(last.x), ItemParam(last.tag))

\* C26: rule min=p reports less-than-min exactly when the value (of a
\* signed, unsigned or floating-point number) or the length (of a string,
\* slice, array or map) is less than p, and rule max=p reports
\* greater-than-max exactly when it is greater than p; a value or length
\* equal to p passes both.
C26_MinMaxBounds ==
    /\ BoundCall(<<"min">>) =>
        /\ ~last.res.panic
        /\ last.res.errs =
            IF Measure(Deref(last.x)) < FloatOf(ItemParam(last.tag))
            THEN <<ErrMin>> ELSE <<>>
    /\ BoundCall(<<"max">>) =>
        /\ ~last.res.panic
        /\ last.res.errs =
            IF Measure(Deref(last.x)) > FloatOf(ItemParam(last.tag))
            THEN <<ErrMax>> ELSE <<>>

\* min=1 was checked on an unsigned integer equal to 1, or on a map of one
\* item, and passed
C26_Witness ==
    /\ BoundCall(<<"min">>)
    /\ last.tag = TMin1
    /\ last.x \in {UintV(1), MapV(<<IntV(0)>>)}
    /\ last.res.valid

-----------------------------------------------------------------------------
(* C27: the helpers of src/error.go:59-135 on what Validate returned, a    *)
(* field being named by its path                                           *)

\* Errors(err, field): the errors of the field, nil when err is no *Error
\* or has none for the field
Errors(res, field) ==
    IF res.kind # "Error" THEN <<>>
    ELSE IF field \in DOMAIN res.errs THEN res.errs[field] ELSE <<>>

\* isError(err, field, fieldError)
isError(res, field, fieldError) ==
    IF res.kind # "Error" THEN FALSE
    ELSE \E k \in 1..Len(Errors(res, field)) : Errors(res, field)[k] = fieldError

\* IsRegexp(err, field)
IsRegexp(res, field) == isError(res, field, ErrRegexp)

\* field i holds a string, its tag lists a registered regexp rule whose
\* pattern compiles, and the string does not match the pattern
Mismatch(i) ==
    /\ Deref(LastFields[i].val).kind = "String"
    /\ \E k \in 1..Len(SplitComma(LastTag(i))) :
        LET item == SplitComma(LastTag(i))[k] IN
        /\ ItemName(item) = <<"regexp">>
        /\ RegexCompiles(ItemParam(item))
        /\ ~RegexMatch(ItemParam(item), Deref(LastFields[i].val).s)

\* C27: when Validate returns and a string field does not match the pattern
\* of its regexp rule, the field's violations hold ErrRegexp, "regular
\* expression mismatch": IsRegexp(err, field) is true and Errors(err, field)
\* contains ErrRegexp.
C27_MismatchIsErrRegexp ==
    (ValidatedStruct /\ ~last.res.panic) =>
        \A i \in 1..Len(LastFields) :
            (Mismatch(i) /\ RuleNames(LastTag(i)) \subseteq DOMAIN Funcs(last.v)) =>
                /\ IsRegexp(last.res, <<LastFields[i].name>>)
                /\ \E k \in 1..Len(Errors(last.res, <<LastFields[i].name>>)) :
                    ErrorText(Errors(last.res, <<LastFields[i].name>>)[k])
                        = <<"regular", " ", "expression", " ", "mismatch">>

-----------------------------------------------------------------------------
(* C28 *)

\* path p leads, one segment per struct entered, from struct x to a field
\* of x that is no struct
RECURSIVE PathIn(_, _)
PathIn(x, p) ==
    /\ p # <<>>
    /\ \E i \in 1..Len(x.fields) :
        /\ x.fields[i].name = p[1]
        /\ IF Len(p) = 1 THEN Deref(x.fields[i].val).kind # "Struct"
           ELSE /\ Deref(x.fields[i].val).kind = "Struct"
                /\ PathIn(Deref(x.fields[i].val), Tail(p))

-----------------------------------------------------------------------------
(* C29 *)

\* C29: a call of Validate or Valid that returns gives the flag true
\* exactly when it gives no error: Validate a nil error, and never an
\* *Error without entries; Valid an empty list of errors.
C29_ValidIffNoError ==
    /\ (last.op = "Validate" /\ ~last.res.panic) =>
        /\ last.res.valid <=> last.res.kind = "nil"
        /\ last.res.kind = "Error" <=> DOMAIN last.res.errs # {}
        /\ \A p \in DOMAIN last.res.errs : last.res.errs[p] # <<>>
    /\ (last.op = "Valid" /\ ~last.res.panic) =>
        last.res.valid <=> last.res.errs = <<>>

\* Valid returned one violation, and the flag false
C29_Witness ==
    /\ last.op = "Valid"
    /\ ~last.res.panic
    /\ Len(last.res.errs) = 1
    /\ ~last.res.valid

-----------------------------------------------------------------------------
(* C30 *)

\* an item of tag text t has no name, or a name that is not registered
HasBadSegment(funcs, t) ==
    \E k \in 1..Len(SplitComma(t)) :
        \/ ItemName(SplitComma(t)[k]) = <<>>
        \/ ItemName(SplitComma(t)[k]) \notin DOMAIN funcs

\* a tag text that is not empty and holds no quote and no backslash
PlainTag(t) ==
    t # <<>> /\ \A k \in 1..Len(t) : t[k] \notin {DQuote, BSlash}

\* C30: when an item of a tag has no name or names a rule that is not
\* registered, none of the tag's rules is evaluated: the value gets the one
\* error unknown tag and nothing else, also when a rule listed before the
\* bad item fails on the value.
C30_ParseAllOrNothing ==
    /\ (last.op = "Valid" /\ Deref(last.x).kind # "Struct"
            /\ PlainTag(last.tag) /\ HasBadSegment(Funcs(last.v), last.tag)) =>
        /\ ~last.res.panic
        /\ last.res.errs = <<ErrUnknownTag>>
    /\ (ValidatedStruct /\ ~last.res.panic) =>
        \A i \in 1..Len(LastFields) :
            (Deref(LastFields[i].val).kind # "Struct"
                /\ PlainTag(LastTag(i)) /\ HasBadSegment(Funcs(last.v), LastTag(i))) =>
                Errors(last.res, <<LastFields[i].name>>) = <<ErrUnknownTag>>

\* "nonzero,foo" on the zero value 0: nonzero alone reports zero value, the
\* tag only unknown tag
C30_Witness ==
    /\ last.op = "Valid"
    /\ last.x = IntV(0)
    /\ last.tag = TNonzeroFoo
    /\ Valid(Funcs(last.v), last.x, TNonzero).errs = <<ErrZeroValue>>
    /\ last.res.errs = <<ErrUnknownTag>>

====
